---------------------------- MODULE Spec2Model ----------------------------
(***************************************************************************)
(* A model of rmake (src/src/rmake.rs): the YAML-to-Build translation      *)
(* (RMake::new, RMakeTarget::from_mapping), the expansion engine           *)
(* (RMakeUtils::find_and_replace), the dependency resolver                 *)
(* (RMake::chain_commands and its inner find) and the runner (RMake::run). *)
(*                                                                         *)
(* Every Rust String (names and keys included) is modelled as a sequence   *)
(* of one-character strings, so that the                                   *)
(* regex match, the whitespace split and the replacement template are      *)
(* computed character by character as the code computes them.              *)
(*                                                                         *)
(* Two specifications share the variables:                                 *)
(*   Spec      the runner and the resolver on a constructed RMake, find    *)
(*             unfolded into one step per loop iteration and per return    *)
(*             (the process is single-threaded: the steps of one run       *)
(*             follow each other, and run may be called again);            *)
(*   LoadSpec  RMake::new on a YAML document (parse and expand).           *)
(***************************************************************************)
EXTENDS Integers, Sequences, FiniteSets, TLC

VARIABLES
    targets,        \* RMake.targets: name -> RMakeTarget
    variables,      \* RMake.variables: name -> value (None = empty map)
    pc,             \* position of the process
    name,           \* run's argument
    stack,          \* the call stack of find: frames, innermost last
    visited,        \* chain_commands' local visited map (its key set)
    command_chain,  \* chain_commands' result
    forwarded,      \* the lines logged by run's info!, in order
    calls,          \* number of recursive calls of find in this chain
    last,           \* the previous completed chain_commands call
    doc,            \* the YAML document RMake::new reads
    env,            \* the process environment
    shell_stdout,   \* what a spawned child prints (or that it cannot spawn)
    fatal           \* the fatal error that ended the process ("" while none)

vars == <<targets, variables, pc, name, stack, visited, command_chain,
          forwarded, calls, last, doc, env, shell_stdout, fatal>>

--------------------------------------------------------------------------
(* Bounds and the input universe of the resolver.                          *)

\* Most dep entries (edges, dangling ones included) of a build explored.
MaxEdges == 4

\* Names that may be targets; a name that is not a key of targets in a
\* given build is a dangling dependency there.
Names == {<<"a">>, <<"b">>, <<"c">>}

\* The expanded commands of each target, pairwise distinct across targets so
\* that the owner of an emitted command can be read off the output.
CmdsOf(n) ==
    CASE n = <<"a">> -> << <<"A", "1">>, <<"A", "2">> >>
      [] n = <<"b">> -> << <<"B">> >>
      [] OTHER   -> << <<"C">> >>

\* The dep lists of at most k names.
DepLists(k) == UNION {[1..j -> Names] : j \in 0..k}

\* RMakeTarget, src/src/rmake.rs:49-58. deps: None is the empty list
\* (from_mapping stores None exactly when the list is empty).
MkTarget(n, d, c) == [name |-> n, deps |-> d, cmds |-> c]

\* The maps from the names in S to dep lists with at most budget entries in
\* all.
RECURSIVE DepMaps(_, _)
DepMaps(S, budget) ==
    IF S = {} THEN {<<>>}
    ELSE LET n == CHOOSE x \in S : TRUE
         IN  UNION {{[k \in DOMAIN rest \cup {n} |-> IF k = n THEN d ELSE rest[k]] :
                        rest \in DepMaps(S \ {n}, budget - Len(d))} :
                    d \in DepLists(budget)}

Builds == UNION {DepMaps(S, MaxEdges) : S \in (SUBSET Names \ {{}})}

BuildOf(depmap) ==
    [n \in DOMAIN depmap |-> MkTarget(n, depmap[n], CmdsOf(n))]

NoCall == [valid |-> FALSE, goal |-> <<>>, chain |-> <<>>]

EmptyMap == <<>>

--------------------------------------------------------------------------
(* The resolver: RMake::chain_commands and its inner find.                 *)

\* rmake.rs:245-246: a dependency is descended into when it is a key of
\* targets and not yet a key of visited.
ShouldVisitNoCheck(dep, tgts, vis) == dep \in DOMAIN tgts

ShouldVisit(dep, tgts, vis) == dep \in DOMAIN tgts /\ dep \notin vis

\* rmake.rs:247: visited.insert(dep, true), executed only on the branch
\* ShouldVisit selects.
MarkAlways(dep, tgts, vis) == vis \cup {dep}

MarkVisited(dep, tgts, vis) ==
    IF ShouldVisit(dep, tgts, vis) THEN vis \cup {dep} ELSE vis

\* rmake.rs:248 and 254: Vec::extend appends at the end.
ExtendFront(ret, more) == more \o ret

Extend(ret, more) == ret \o more

\* rmake.rs:241 and 244: a fresh frame of find for `target`; its loop starts
\* at the first dependency.
FrameSkipFirst(target) == [target |-> target, i |-> 2, ret_command |-> <<>>]

Frame(target) == [target |-> target, i |-> 1, ret_command |-> <<>>]

Top == stack[Len(stack)]

\* rmake.rs:258: let mut visited = HashMap::new();
StaleVisited == visited

FreshVisited == {}


\* rmake.rs:270: the for loop hands the commands over front to back.
LastUnforwarded(chain, done) == chain[Len(chain) - Len(done)]

NextCommand(chain, done) == chain[Len(done) + 1]

\* rmake.rs:269: self.targets.get(&name)
IsTarget(n, tgts) == n \in DOMAIN tgts

--------------------------------------------------------------------------
(* The runner and the resolver as a state machine.                         *)

\* rmake.rs:268-276, RMake::run up to the call of chain_commands, and
\* rmake.rs:258-259, chain_commands up to the first call of find. An unknown
\* name takes the else branch: RMakeError! logs and exits the process.
Run(n) ==
    /\ pc = "idle"
    /\ name' = n
    /\ IF IsTarget(n, targets)
       THEN /\ pc' = "find"
            /\ visited' = FreshVisited
            /\ stack' = <<Frame(targets[n])>>
            /\ fatal' = fatal
       ELSE /\ pc' = "exited"
            /\ fatal' = "unknown_goal"
            /\ UNCHANGED <<visited, stack>>
    /\ calls' = 0
    /\ command_chain' = <<>>
    /\ forwarded' = <<>>
    /\ UNCHANGED <<targets, variables, last, doc, env, shell_stdout>>

\* rmake.rs:244-251: one iteration of find's loop over target.deps.
FindDep ==
    /\ pc = "find"
    /\ Top.i <= Len(Top.target.deps)
    /\ LET dep == Top.target.deps[Top.i]
           advanced == [stack EXCEPT ![Len(stack)].i = @ + 1]
       IN  /\ visited' = MarkVisited(dep, targets, visited)
           /\ IF ShouldVisit(dep, targets, visited)
              THEN /\ stack' = Append(advanced, Frame(targets[dep]))
                   /\ calls' = calls + 1
              ELSE /\ stack' = advanced
                   /\ calls' = calls
    /\ UNCHANGED <<targets, variables, pc, name, command_chain, forwarded,
                   last, doc, env, shell_stdout, fatal>>

\* rmake.rs:254-255 and the caller's extend at 248 (or, for the outermost
\* call, chain_commands' return at 259-260).
FindReturn ==
    /\ pc = "find"
    /\ Top.i > Len(Top.target.deps)
    /\ LET ret == Extend(Top.ret_command, Top.target.cmds)
           n   == Len(stack)
       IN  IF n = 1
           THEN /\ command_chain' = ret
                /\ stack' = <<>>
                /\ pc' = "forward"
           ELSE /\ stack' = [SubSeq(stack, 1, n - 1)
                               EXCEPT ![n - 1].ret_command = Extend(@, ret)]
                /\ UNCHANGED <<command_chain, pc>>
    /\ UNCHANGED <<targets, variables, name, visited, forwarded, calls,
                   last, doc, env, shell_stdout, fatal>>

\* rmake.rs:270-272: one iteration of run's loop: info!("Running: {}", cmd).
Forward ==
    /\ pc = "forward"
    /\ Len(forwarded) < Len(command_chain)
    /\ forwarded' = Append(forwarded, NextCommand(command_chain, forwarded))
    /\ UNCHANGED <<targets, variables, pc, name, stack, visited,
                   command_chain, calls, last, doc, env, shell_stdout, fatal>>

\* rmake.rs:272-276: the loop is over and run returns; its locals are gone.
\* last remembers the call for the comparison of consecutive calls.
RunReturn ==
    /\ pc = "forward"
    /\ Len(forwarded) = Len(command_chain)
    /\ pc' = "idle"
    /\ last' = [valid |-> TRUE, goal |-> name, chain |-> command_chain]
    /\ name' = <<>>
    /\ command_chain' = <<>>
    /\ forwarded' = <<>>
    /\ calls' = 0
    /\ UNCHANGED <<targets, variables, stack, visited, doc, env, shell_stdout,
                   fatal>>

\* The state after construction: RMake::new has returned Ok(RMake {..}).
Init ==
    /\ targets \in {BuildOf(d) : d \in Builds}
    /\ variables = EmptyMap
    /\ pc = "idle"
    /\ name = <<>>
    /\ stack = <<>>
    /\ visited = {}
    /\ command_chain = <<>>
    /\ forwarded = <<>>
    /\ calls = 0
    /\ last = NoCall
    /\ doc = EmptyMap
    /\ env = EmptyMap
    /\ shell_stdout = [ok |-> TRUE, out |-> <<>>]
    /\ fatal = ""

Next ==
    \/ \E n \in Names : Run(n)
    \/ FindDep
    \/ FindReturn
    \/ Forward
    \/ RunReturn

Spec == Init /\ [][Next]_vars


--------------------------------------------------------------------------
(* Properties of the resolver and the runner (checked under Spec).         *)

Range(s) == {s[i] : i \in DOMAIN s}

\* The target a command of the output belongs to (CmdsOf keeps the commands
\* of different targets distinct).
Owner(cmd) == CHOOSE n \in Names : cmd \in Range(CmdsOf(n))

\* The positions of the output that hold a command of target n.
PositionsOf(n) == {p \in DOMAIN command_chain : Owner(command_chain[p]) = n}

\* The targets one dep edge away from a set of names.
DepsOfSet(S) ==
    {m \in DOMAIN targets :
        \E n \in S \cap DOMAIN targets : m \in Range(targets[n].deps)}

RECURSIVE Closure(_)
Closure(S) == IF DepsOfSet(S) \subseteq S THEN S ELSE Closure(S \cup DepsOfSet(S))

\* t is reachable from d along dep edges through defined targets (d itself
\* included).
Reaches(d, t) == t \in Closure({d})

\* The chain is complete: find's outermost call has returned.
ChainDone == pc = "forward"

\* C1 (as claimed): the output of chain_commands holds each target's command
\* block at most once, also for a goal that lies on a dependency cycle.
C1_AtMostOnce ==
    ChainDone =>
        \A p, q \in DOMAIN command_chain :
            command_chain[p] = command_chain[q] => p = q

\* C2 (as claimed): every emitted command of a dependency d of t that is a
\* target stands before every emitted command of t.
C2_PostOrderAllDeps ==
    ChainDone =>
        \A t \in DOMAIN targets : \A d \in Range(targets[t].deps) \cap DOMAIN targets :
            \A p \in PositionsOf(d), q \in PositionsOf(t) : p < q

\* C2 (amended): every emitted command of a dependency d of t that is a
\* target, and from which t cannot be reached back along dep edges, stands
\* before every emitted command of t.
C2_PostOrderOffCycle ==
    ChainDone =>
        \A t \in DOMAIN targets : \A d \in Range(targets[t].deps) \cap DOMAIN targets :
            ~Reaches(d, t) =>
                \A p \in PositionsOf(d), q \in PositionsOf(t) : p < q

\* C2's case: a chain that emitted both a target with two dependencies and
\* those dependencies, one of them shared with the other (a diamond edge).
C2_Witness ==
    /\ ChainDone
    /\ \E t \in DOMAIN targets : \E d, e \in Range(targets[t].deps) \cap DOMAIN targets :
          /\ d # e /\ d # t /\ e # t
          /\ ~Reaches(d, t) /\ ~Reaches(e, t)
          /\ d \in Range(targets[e].deps)
          /\ PositionsOf(t) # {} /\ PositionsOf(d) # {} /\ PositionsOf(e) # {}

\* The work find has left: every target not yet visited may still cost a
\* frame (its dep loop and its return); every open frame has its remaining
\* loop iterations and its return.
RECURSIVE OpenWork(_)
OpenWork(st) ==
    IF st = <<>> THEN 0
    ELSE LET f == st[Len(st)]
         IN  (Len(f.target.deps) - f.i + 2) + OpenWork(SubSeq(st, 1, Len(st) - 1))

RECURSIVE MaxOf(_)
MaxOf(S) ==
    IF S = {} THEN 0
    ELSE LET x == CHOOSE y \in S : TRUE
             m == MaxOf(S \ {x})
         IN  IF x > m THEN x ELSE m

FrameCost == 2 + MaxOf({Len(targets[n].deps) : n \in DOMAIN targets})

Measure == Cardinality(DOMAIN targets \ visited) * FrameCost + OpenWork(stack)

\* C3: chain_commands terminates on every Build, cyclic ones included: each
\* step of find strictly decreases a natural-number measure, every recursive
\* call adds a new name to visited, and the number of recursive calls never
\* exceeds the number of targets.
C3_Terminates ==
    [][pc = "find" =>
          /\ Measure' < Measure
          /\ Measure' >= 0
          /\ calls' >= calls
          /\ calls' - calls = Cardinality(visited' \ visited)
          /\ Len(stack') > Len(stack) <=> calls' > calls
          /\ calls' <= Cardinality(DOMAIN targets)]_vars

\* C3's case: a chain over a cyclic graph has ended, the goal having been
\* reached again through its own dependencies.
C3_Witness ==
    /\ ChainDone
    /\ name \in visited
    /\ calls >= 2

\* C7: an unknown name ends in the fatal error with nothing forwarded; a
\* known name has the elements of the chain forwarded one by one in list
\* order, and run returns only when all of them have been forwarded.
C7_RunForwardsChain ==
    [][/\ pc' = "exited" =>
             /\ name' \notin DOMAIN targets
             /\ fatal' = "unknown_goal"
             /\ forwarded' = <<>>
       /\ pc' \in {"find", "forward"} => name' \in DOMAIN targets
       /\ pc' = "find" => forwarded' = <<>>
       /\ pc' = "forward" =>
             /\ Len(forwarded') <= Len(command_chain')
             /\ forwarded' = SubSeq(command_chain', 1, Len(forwarded'))
       /\ (pc = "forward" /\ pc' = "forward") =>
             /\ command_chain' = command_chain
             /\ Len(forwarded') = Len(forwarded) + 1
       /\ (pc = "forward" /\ pc' = "idle") => forwarded = command_chain]_vars

\* C7's case: a run has forwarded a chain of at least three commands in full.
C7_Witness ==
    /\ pc = "forward"
    /\ Len(command_chain) >= 3
    /\ forwarded = command_chain

\* The loop iteration FindDep is about to execute looks at a dependency that
\* is not a key of targets.
AtDanglingDep ==
    /\ pc = "find"
    /\ Top.i <= Len(Top.target.deps)
    /\ Top.target.deps[Top.i] \notin DOMAIN targets

\* C9: a dependency that is not a key of targets is skipped: no error, no
\* command added, visited unchanged, no call made; only the loop moves on to
\* the next dependency of the same target.
C9_DanglingSkipped ==
    [][AtDanglingDep =>
          /\ pc' = "find"
          /\ visited' = visited
          /\ calls' = calls
          /\ command_chain' = command_chain
          /\ stack' = [stack EXCEPT ![Len(stack)].i = @ + 1]]_vars

\* C9's case: a chain has ended whose goal lists a dangling name before a
\* defined target, and that target was still visited.
C9_Witness ==
    /\ ChainDone
    /\ Len(targets[name].deps) = 2
    /\ targets[name].deps[1] \notin DOMAIN targets
    /\ targets[name].deps[2] \in visited
    /\ targets[name].deps[2] # name

\* C10: run and chain_commands leave targets and variables as they were, and
\* a chain_commands call with the goal of the call before it returns the
\* same list.
C10_BuildUnchanged ==
    [][/\ targets' = targets
       /\ variables' = variables
       /\ (pc' = "forward" /\ last'.valid /\ last'.goal = name')
             => command_chain' = last'.chain]_vars

\* C10's case: a second consecutive chain for the same goal, with
\* dependencies, has ended.
C10_Witness ==
    /\ ChainDone
    /\ last.valid
    /\ last.goal = name
    /\ calls >= 1

\* The targets whose commands stand in the output.
Contributors == {Owner(command_chain[p]) : p \in DOMAIN command_chain}

\* The last Len(block) elements of the output are block.
EndsWith(chain, block) ==
    /\ Len(chain) >= Len(block)
    /\ SubSeq(chain, Len(chain) - Len(block) + 1, Len(chain)) = block

\* C11: the targets whose commands stand in chain_commands(goal) are exactly
\* the goal and the targets reachable from it along dep edges through
\* defined targets (none omitted, none added, cyclic graphs and diamonds
\* included), and the output ends with the goal's own cmds.
C11_ReachableExactly ==
    ChainDone =>
        /\ Contributors = Closure({name})
        /\ EndsWith(command_chain, targets[name].cmds)

\* C11's case: a chain has ended on a build where the goal reaches a second
\* target twice (a duplicate or a cycle edge was dropped), a third target is
\* defined and not reachable, and the goal has a dependency before the one
\* that leads on.
C11_Witness ==
    /\ ChainDone
    /\ DOMAIN targets = Names
    /\ Cardinality(Closure({name})) = 2
    /\ Len(targets[name].deps) >= 2
    /\ calls = 1
    /\ \E t \in DOMAIN targets \ Closure({name}) : name \in Range(targets[t].deps)


--------------------------------------------------------------------------
(* The expansion engine: RMakeUtils::find_and_replace.                     *)

\* The characters a capture-group name of a replacement template may hold
\* ([0-9A-Za-z_]).
Digits == {"0", "1", "2", "3", "4", "5", "6", "7", "8", "9"}

CapLetters ==
    Digits \cup {"_"} \cup
    {"a", "b", "c", "d", "e", "f", "g", "h", "i", "j", "k", "l", "m",
     "n", "o", "p", "q", "r", "s", "t", "u", "v", "w", "x", "y", "z",
     "A", "B", "C", "D", "E", "F", "G", "H", "I", "J", "K", "L", "M",
     "N", "O", "P", "Q", "R", "S", "T", "U", "V", "W", "X", "Y", "Z"}

\* The characters str::split_whitespace splits on.
Whitespace == {" ", "\t", "\n"}

MinOf(S) == CHOOSE x \in S : \A y \in S : x <= y

Drop(s, k) == SubSeq(s, k + 1, Len(s))

\* rmake.rs:407-409: the regex \$\(([^)]+)\) matches at i when "$(" stands
\* at i, the next character is not ")", and a ")" follows; the match ends at
\* the first ")" after the body.
MatchesAt(s, i) ==
    /\ i + 3 <= Len(s)
    /\ s[i] = "$"
    /\ s[i + 1] = "("
    /\ s[i + 2] # ")"
    /\ \E j \in (i + 3)..Len(s) : s[j] = ")"

MatchEnd(s, i) == MinOf({j \in (i + 3)..Len(s) : s[j] = ")"})

NoMatch == [found |-> FALSE, start |-> 0, end |-> 0]

\* The leftmost match of the regex in s at or after position from.
FirstMatch(s, from) ==
    LET starts == {i \in from..Len(s) : MatchesAt(s, i)}
    IN  IF starts = {} THEN NoMatch
        ELSE [found |-> TRUE, start |-> MinOf(starts),
              end |-> MatchEnd(s, MinOf(starts))]

\* rmake.rs:426: re.find_iter: the successive non-overlapping matches.
RECURSIVE FindIter(_, _)
FindIter(s, from) ==
    LET m == FirstMatch(s, from)
    IN  IF m.found THEN <<m>> \o FindIter(s, m.end + 1) ELSE <<>>

\* rmake.rs:433: str::split_whitespace: the maximal runs of non-whitespace.
RECURSIVE SplitWhitespace(_)
SplitWhitespace(s) ==
    IF s = <<>> THEN <<>>
    ELSE IF s[1] \in Whitespace THEN SplitWhitespace(Drop(s, 1))
    ELSE LET stops == {i \in 1..Len(s) : s[i] \in Whitespace}
             n     == IF stops = {} THEN Len(s) ELSE MinOf(stops) - 1
         IN  <<SubSeq(s, 1, n)>> \o SplitWhitespace(Drop(s, n))

\* Whether a run of capture letters is a number (a group index), and the
\* number it spells.
AllDigits(w) == \A i \in DOMAIN w : w[i] \in Digits

DigitValue(c) == CHOOSE d \in 0..9 : ToString(d) = c

RECURSIVE Number(_)
Number(w) ==
    IF w = <<>> THEN 0 ELSE 10 * Number(SubSeq(w, 1, Len(w) - 1)) + DigitValue(w[Len(w)])

\* rmake.rs:504: the replacement handed to Regex::replace is a template:
\* "$$" stands for "$", "$name" for capture group name (the regex has the
\* groups 0, the match, and 1, the body; any other reference is empty), and
\* a "$" that starts no reference stands for itself.
RECURSIVE ExpandTemplate(_, _, _)
ExpandTemplate(rep, whole, body) ==
    IF rep = <<>> THEN <<>>
    ELSE IF rep[1] # "$" THEN <<rep[1]>> \o ExpandTemplate(Drop(rep, 1), whole, body)
    ELSE IF Len(rep) = 1 THEN rep
    ELSE IF rep[2] = "$" THEN <<"$">> \o ExpandTemplate(Drop(rep, 2), whole, body)
    ELSE LET stops == {i \in 2..Len(rep) : rep[i] \notin CapLetters}
             last_ == IF stops = {} THEN Len(rep) ELSE MinOf(stops) - 1
             ref   == SubSeq(rep, 2, last_)
             group == IF AllDigits(ref) /\ Number(ref) = 0 THEN whole
                      ELSE IF AllDigits(ref) /\ Number(ref) = 1 THEN body
                      ELSE <<>>
         IN  IF ref = <<>>
             THEN <<"$">> \o ExpandTemplate(Drop(rep, 1), whole, body)
             ELSE group \o ExpandTemplate(Drop(rep, last_), whole, body)

\* rmake.rs:504: re.replace(&value, to): the leftmost match of the current
\* value is replaced by the expanded template; no match, no change.
ReplaceFirst(value, to) ==
    LET m == FirstMatch(value, 1)
    IN  IF ~m.found THEN value
        ELSE SubSeq(value, 1, m.start - 1)
             \o ExpandTemplate(to, SubSeq(value, m.start, m.end),
                               SubSeq(value, m.start + 2, m.end - 1))
             \o Drop(value, m.end)

\* rmake.rs:26-35: RMakeCoreCommand::from_str.
FromStr(w) ==
    IF w = <<"s", "h", "e", "l", "l">> THEN "Shell"
    ELSE IF w = <<"w", "h", "i", "l", "d", "c", "a", "r", "d">> THEN "Wildcard"
    ELSE "Err"

\* The result of find_and_replace: the string, or the fatal error that ended
\* the process inside it.
Expanded(v) == [err |-> "", value |-> v]

Failed(e) == [err |-> e, value |-> <<>>]

\* rmake.rs:420-509: find_and_replace. The matches are those of the value as
\* passed in (find_iter runs over a clone); ReplaceLoop is the for loop from
\* its k-th match on, value being the string rewritten so far.
RECURSIVE FindAndReplace(_, _)
RECURSIVE ReplaceLoop(_, _, _, _, _)
ReplaceLoop(value, original, found, k, vs) ==
    IF k > Len(found) THEN Expanded(value)
    ELSE
      LET found_str       == SubSeq(original, found[k].start + 2, found[k].end - 1)
          found_str_elems == SplitWhitespace(found_str)
          \* rmake.rs:440-470: a single word: a variable, else the environment
          single ==
              IF found_str_elems[1] \in DOMAIN vs
              THEN FindAndReplace(vs[found_str_elems[1]], vs)
              ELSE IF found_str_elems[1] \in DOMAIN env
              THEN Expanded(env[found_str_elems[1]])
              ELSE Expanded(<<>>)
          \* rmake.rs:471-501: several words: a core command
          core == FromStr(found_str_elems[1])
          multi ==
              IF core = "Shell"
              THEN IF shell_stdout.ok THEN Expanded(shell_stdout.out)
                   ELSE Failed("shell_spawn")
              ELSE IF core = "Wildcard" THEN Expanded(<<>>)
              ELSE Failed("unknown_meta")
          to == IF Len(found_str_elems) = 1 THEN single
                ELSE IF Len(found_str_elems) > 1 THEN multi
                ELSE Expanded(<<>>)
      IN  IF to.err # "" THEN to
          ELSE ReplaceLoop(ReplaceFirst(value, to.value), original, found, k + 1, vs)

FindAndReplace(value, vs) == ReplaceLoop(value, value, FindIter(value, 1), 1, vs)


--------------------------------------------------------------------------
(* The YAML document and the target parser.                                *)

\* serde_yaml::Value, as far as the loader looks at it: a string scalar, any
\* other scalar, a sequence, a target mapping (its cmd and dep entries; a
\* missing key is YAbsent).
YAbsent == [kind |-> "absent", s |-> <<>>, items |-> <<>>, cmd |-> <<>>, dep |-> <<>>]

YInt == [kind |-> "int", s |-> <<>>, items |-> <<>>, cmd |-> <<>>, dep |-> <<>>]

YStr(t) == [kind |-> "str", s |-> t, items |-> <<>>, cmd |-> <<>>, dep |-> <<>>]

YSeq(vs) == [kind |-> "seq", s |-> <<>>, items |-> vs, cmd |-> <<>>, dep |-> <<>>]

YMap(c, d) == [kind |-> "map", s |-> <<>>, items |-> <<>>, cmd |-> c, dep |-> d]

IsString(v) == v.kind = "str"

IsMapping(v) == v.kind = "map"

\* Sequence helpers.
RECURSIVE SelectStrings(_)
SelectStrings(vs) ==
    IF vs = <<>> THEN <<>>
    ELSE (IF IsString(vs[1]) THEN <<vs[1].s>> ELSE <<>>) \o SelectStrings(Drop(vs, 1))

\* rmake.rs:337: str::split("\n"): the pieces between newlines, empty ones
\* kept; the empty string gives one empty piece.
RECURSIVE SplitNewline(_)
SplitNewline(s) ==
    LET stops == {i \in 1..Len(s) : s[i] = "\n"}
    IN  IF stops = {} THEN <<s>>
        ELSE <<SubSeq(s, 1, MinOf(stops) - 1)>> \o SplitNewline(Drop(s, MinOf(stops)))

\* rmake.rs:306-318: the dependency names.
DepsFrom(dep) ==
    IF IsString(dep) THEN <<dep.s>>
    ELSE IF dep.kind = "seq" THEN SelectStrings(dep.items)
    ELSE <<>>

\* rmake.rs:300-373: RMakeTarget::from_mapping: the target, or the fatal
\* error RMakeError! exits with.
FromMapping(n, mapping) ==
    IF mapping.cmd.kind = "absent"
    THEN [err |-> "missing_cmd", target |-> MkTarget(n, <<>>, <<>>)]
    ELSE IF IsString(mapping.cmd)
    THEN [err |-> "",
          target |-> MkTarget(n, DepsFrom(mapping.dep), SplitNewline(mapping.cmd.s))]
    ELSE IF mapping.cmd.kind = "seq"
    THEN IF \A i \in DOMAIN mapping.cmd.items : IsString(mapping.cmd.items[i])
         THEN [err |-> "",
               target |-> MkTarget(n, DepsFrom(mapping.dep),
                                   SelectStrings(mapping.cmd.items))]
         ELSE [err |-> "cmd_element_not_string", target |-> MkTarget(n, <<>>, <<>>)]
    ELSE [err |-> "cmd_not_sequence_nor_string", target |-> MkTarget(n, <<>>, <<>>)]

\* rmake.rs:112-145: extract_targets_and_variables over the root mapping's
\* entries in document order: the targets and variables collected so far, or
\* the fatal error of the first target that does not parse.
RECURSIVE Extract(_, _, _)
Extract(entries, tgts, vs) ==
    IF entries = <<>> THEN [err |-> "", targets |-> tgts, variables |-> vs]
    ELSE
      LET key == entries[1][1]
          val == entries[1][2]
      IN  IF IsMapping(val)
          THEN LET t == FromMapping(key, val)
               IN  IF t.err # "" THEN [err |-> t.err, targets |-> tgts, variables |-> vs]
                   ELSE Extract(Drop(entries, 1),
                                [k \in DOMAIN tgts \cup {key} |->
                                    IF k = key THEN t.target ELSE tgts[k]],
                                vs)
          ELSE IF IsString(val)
          THEN Extract(Drop(entries, 1), tgts,
                       [k \in DOMAIN vs \cup {key} |->
                           IF k = key THEN val.s ELSE vs[k]])
          ELSE Extract(Drop(entries, 1), tgts, vs)

\* rmake.rs:380-393: expand_commands: every command through find_and_replace,
\* in order; the first fatal error ends the process.
RECURSIVE ExpandCommands(_, _)
ExpandCommands(cmds, vs) ==
    IF cmds = <<>> THEN [err |-> "", cmds |-> <<>>]
    ELSE LET c == FindAndReplace(cmds[1], vs)
         IN  IF c.err # "" THEN [err |-> c.err, cmds |-> <<>>]
             ELSE LET rest == ExpandCommands(Drop(cmds, 1), vs)
                  IN  IF rest.err # "" THEN rest
                      ELSE [err |-> "", cmds |-> <<c.value>> \o rest.cmds]

\* rmake.rs:154-186: RMake::new. A root that is not a mapping, a target that
\* does not parse, no target at all and a fatal error during expansion end
\* the process; otherwise the RMake holds the targets with their expanded
\* commands. The targets are expanded in the HashMap's iteration order, so
\* with several failing targets any of their errors may be the one reported.
Load ==
    /\ pc = "start"
    /\ LET ex == IF doc.kind = "map" THEN Extract(doc.entries, <<>>, <<>>)
                 ELSE [err |-> "root_not_mapping", targets |-> <<>>, variables |-> <<>>]
           exp == [n \in DOMAIN ex.targets |->
                      ExpandCommands(ex.targets[n].cmds, ex.variables)]
           bad == {n \in DOMAIN ex.targets : exp[n].err # ""}
       IN  IF ex.err # ""
           THEN /\ pc' = "exited"
                /\ fatal' = ex.err
                /\ UNCHANGED <<targets, variables>>
           ELSE IF DOMAIN ex.targets = {}
           THEN /\ pc' = "exited"
                /\ fatal' = "no_target"
                /\ UNCHANGED <<targets, variables>>
           ELSE IF bad # {}
           THEN /\ pc' = "exited"
                /\ \E n \in bad : fatal' = exp[n].err
                /\ UNCHANGED <<targets, variables>>
           ELSE /\ pc' = "idle"
                /\ fatal' = fatal
                /\ targets' = [n \in DOMAIN ex.targets |->
                                  [ex.targets[n] EXCEPT !.cmds = exp[n].cmds]]
                /\ variables' = ex.variables
    /\ UNCHANGED <<name, stack, visited, command_chain, forwarded, calls, last,
                   doc, env, shell_stdout>>

--------------------------------------------------------------------------
(* The documents, environments and child outcomes LoadSpec explores.       *)

\* Longest command text, in pieces of CmdPieces.
MaxPieces == 3

KeyA == <<"A">>

KeyB == <<"B">>

KeyH == <<"H">>

KeyT == <<"t">>

KeyU == <<"u">>

RefA == <<"$", "(", "A", ")">>

RefB == <<"$", "(", "B", ")">>

RefH == <<"$", "(", "H", ")">>

\* U is neither a variable nor set in the environment.
RefU == <<"$", "(", "U", ")">>

MetaWildcard == <<"$", "(", "w", "i", "l", "d", "c", "a", "r", "d", " ", "x", ")">>

MetaWhildcard == <<"$", "(", "w", "h", "i", "l", "d", "c", "a", "r", "d", " ", "x", ")">>

MetaShell == <<"$", "(", "s", "h", "e", "l", "l", " ", "l", "s", " ", "-", "l", ")">>

MetaBogus == <<"$", "(", "b", "o", "g", "u", "s", " ", "x", ")">>

CmdPieces ==
    {RefA, RefB, RefH, RefU, MetaWildcard, MetaWhildcard, MetaShell, MetaBogus,
     <<"B", ")">>, <<"x">>, <<" ">>}

RECURSIVE Flatten(_)
Flatten(ps) == IF ps = <<>> THEN <<>> ELSE ps[1] \o Flatten(Drop(ps, 1))

CmdTexts == {Flatten(ps) : ps \in UNION {[1..k -> CmdPieces] : k \in 0..MaxPieces}}

\* The values of variable A: plain, a reference to B, an unclosed "$(".
ValuesA == {<<"a">>, <<"-">> \o RefB, <<"$", "(">>}

\* B is a string variable, or a non-string scalar (then not a variable).
EntriesB == {YStr(<<"b">>), YInt}

\* The environment: H unset, a plain value, a value that looks like a
\* reference, a value with "$" and letters.
Envs ==
    {<<>>} \cup
    {[k \in {KeyH} |-> v] :
        v \in {<<"/", "u">>, RefU, <<"c", "$", "x">>}}

ShellOutcomes == {[ok |-> TRUE, out |-> <<"o", "\n">>], [ok |-> FALSE, out |-> <<>>]}

RootOf(entries) == [kind |-> "map", entries |-> entries]

\* Documents that exercise the expansion: variables A and B and one target
\* whose cmd is a scalar string.
ExpansionDocs ==
    {RootOf(<< <<KeyA, YStr(a)>>, <<KeyB, b>>, <<KeyT, YMap(YStr(c), YAbsent)>> >>) :
        a \in ValuesA, b \in EntriesB, c \in CmdTexts}

\* Documents that exercise the shapes the parser accepts and rejects.
CmdShapes ==
    {YAbsent, YInt, YSeq(<<>>), YSeq(<<YStr(<<"x">>)>>),
     YSeq(<<YStr(<<"x">>), YInt>>), YSeq(<<YStr(RefA), YStr(<<"x", "\n", "x">>)>>),
     YStr(<<>>), YStr(<<"x", "\n", "x">>), YStr(<<"x", "\n">>), YStr(RefA)}

DepShapes ==
    {YAbsent, YInt, YStr(KeyU), YSeq(<<>>),
     YSeq(<<YStr(KeyU), YInt, YStr(<<"z">>)>>)}

ShapeDocs ==
    {RootOf(<< <<KeyA, YStr(<<"a">>)>>, <<KeyT, YMap(c, d)>> >> \o more) :
        c \in CmdShapes, d \in DepShapes,
        more \in {<<>>, << <<KeyU, YMap(YStr(<<"x">>), YAbsent)>> >>,
                  << <<KeyU, YMap(YAbsent, YAbsent)>> >>}}

OtherDocs ==
    {RootOf(<< <<KeyA, YStr(<<"a">>)>>, <<KeyB, YInt>> >>),
     RootOf(<<>>),
     [kind |-> "seq", entries |-> <<>>]}

Docs == ExpansionDocs \cup ShapeDocs \cup OtherDocs

\* The state before RMake::new is called.
LoadInit ==
    /\ doc \in Docs
    /\ env \in Envs
    /\ shell_stdout \in ShellOutcomes
    /\ pc = "start"
    /\ fatal = ""
    /\ targets = <<>>
    /\ variables = <<>>
    /\ name = <<>>
    /\ stack = <<>>
    /\ visited = {}
    /\ command_chain = <<>>
    /\ forwarded = <<>>
    /\ calls = 0
    /\ last = NoCall

LoadNext == Load

LoadSpec == LoadInit /\ [][LoadNext]_vars


--------------------------------------------------------------------------
(* Properties of the loader (checked under LoadSpec).                      *)

\* RMake::new has returned Ok.
Loaded == pc = "idle"

HasSubstring(s, sub) ==
    \E i \in 1..(Len(s) - Len(sub) + 1) : SubSeq(s, i, i + Len(sub) - 1) = sub

\* The commands of the document's targets as parsed, before expansion.
SourceTargets == Extract(doc.entries, <<>>, <<>>).targets

\* Neither the environment nor the child's output brings a "$" in.
OutsidePlain ==
    /\ \A k \in DOMAIN env : "$" \notin Range(env[k])
    /\ "$" \notin Range(shell_stdout.out)

\* C4 (as claimed): after load no stored command contains $(NAME) with NAME
\* a key of variables, whatever the command text and the variable values
\* (the variable-reference graph of every document explored is acyclic).
C4_ExpansionClosure ==
    (Loaded /\ OutsidePlain) =>
        \A n \in DOMAIN targets : \A i \in DOMAIN targets[n].cmds :
            \A v \in DOMAIN variables :
                ~HasSubstring(targets[n].cmds[i], <<"$", "(">> \o v \o <<")">>)

\* C5 (as claimed): when the first occurrence of a command is $(NAME), after
\* plain text, NAME being no variable but set in the environment, the
\* expanded command starts with that plain text followed by exactly the
\* environment value.
C5_EnvVerbatim ==
    Loaded =>
        \A n \in DOMAIN targets : \A i \in DOMAIN targets[n].cmds :
            LET source == SourceTargets[n].cmds[i]
                m      == FirstMatch(source, 1)
                before == SubSeq(source, 1, m.start - 1)
                words  == SplitWhitespace(SubSeq(source, m.start + 2, m.end - 1))
            IN  (/\ m.found
                 /\ "$" \notin Range(before)
                 /\ Len(words) = 1
                 /\ words[1] \notin DOMAIN variables
                 /\ words[1] \in DOMAIN env)
                => /\ Len(targets[n].cmds[i]) >= Len(before \o env[words[1]])
                   /\ SubSeq(targets[n].cmds[i], 1, Len(before \o env[words[1]]))
                         = before \o env[words[1]]

\* The first words of the several-word occurrences of a text.
MetaWordsOf(text) ==
    {SplitWhitespace(SubSeq(text, m.start + 2, m.end - 1))[1] :
        m \in {x \in Range(FindIter(text, 1)) :
                  Len(SplitWhitespace(SubSeq(text, x.start + 2, x.end - 1))) > 1}}

\* The texts the expansion of a document scans: the commands as parsed and
\* the values of the variables.
ScannedTexts ==
    LET ex == Extract(doc.entries, <<>>, <<>>)
    IN  UNION {Range(ex.targets[n].cmds) : n \in DOMAIN ex.targets}
        \cup {ex.variables[v] : v \in DOMAIN ex.variables}

\* C6 (as claimed): the unknown-meta-command error arises only from an
\* occurrence whose first word is neither shell nor wildcard; $(wildcard ..)
\* is not fatal.
C6_WildcardNotFatal ==
    fatal = "unknown_meta" =>
        \E text \in ScannedTexts : \E w \in MetaWordsOf(text) :
            /\ w # <<"s", "h", "e", "l", "l">>
            /\ w # <<"w", "i", "l", "d", "c", "a", "r", "d">>

\* C8 (as claimed): every Target the parser produced has a non-empty cmds
\* list.
C8_CmdsNonEmpty ==
    Loaded => \A n \in DOMAIN targets : targets[n].cmds # <<>>

====
